---- MODULE Spec2Model ----
(***************************************************************************)
(* repobee-sanitizer: the sanitize-repo extension command                  *)
(* (src/repobee_sanitizer/_sanitize_repo.py).                              *)
(*                                                                         *)
(* The command validates a git repository, reads a list of relative paths, *)
(* and either sanitizes the listed files in the working tree (--no-commit) *)
(* or builds a commit with the sanitized files on a target branch inside a *)
(* temporary copy of the repository and fetches that branch back.          *)
(*                                                                         *)
(* A repository is a record                                                *)
(*   HEAD      the branch the symbolic ref HEAD points to                  *)
(*   refs      refs/heads/<b> -> commit id (0: the branch does not exist)  *)
(*   objects   the commit objects; a commit's id is its position           *)
(*   index     the staging area: file name -> text or Absent               *)
(*   worktree  the files on disk: file name -> text or Absent              *)
(***************************************************************************)
EXTENDS Naturals, Sequences, FiniteSets

VARIABLES
    repo,           \* the repository at args.repo_root
    tmpdir,         \* the TemporaryDirectory: "none", "empty" or "repo"
    copy,           \* the repository at repo_copy_path (EmptyRepo if none)
    pc,             \* position of the running command
    args,           \* the argparse.Namespace of the running command
    file_relpaths,  \* the parsed file list
    result,         \* what _sanitize_repo returned
    raised,         \* the exception that left _sanitize_repo ("" if none)
    calls,          \* calls of _sanitize.sanitize made by the running command
    fault,          \* an operation of the running command failed for a reason
                    \* outside the repository (I/O error, git could not run)
    pre,            \* the repository as it was when the command started
    prev_target,    \* target branch of the commit-mode command that completed
                    \* just before, with no user action since ("" if none)
    prev_dry_run    \* the file list of the dry run that completed just
                    \* before, with no user action and no commit-mode command
                    \* since

vars == <<repo, tmpdir, copy, pc, args, file_relpaths, result, raised, calls,
          fault, pre, prev_target, prev_dry_run>>

-----------------------------------------------------------------------------
(* Bounds of the model *)

\* longest file-list text, in characters
MaxTextLen == 3
\* most commit objects in a repository
MaxCommits == 3
\* longest list of relative paths handed to _sanitize_files on its own
MaxListLen == 3

-----------------------------------------------------------------------------
(* Files, texts, branches *)

Absent == "absent"

\* A path is the sequence of its characters. Two paths that may be tracked,
\* and one the repository's ignore rules match.
PathA == <<"a">>
PathAA == <<"a", "a">>
PathI == <<"i">>
TrackedNames == {PathA, PathAA}
IgnoredNames == {PathI}
FileNames == TrackedNames \cup IgnoredNames

\* File contents. "KSK" holds a block between markers; "KK" is what is left
\* of it; "N" holds no marker.
Texts == {"KSK", "KK", "N"}

Branches == {"main", "pub"}

Tree == [FileNames -> Texts \cup {Absent}]
EmptyTree == [f \in FileNames |-> Absent]

\* _sanitize.sanitize: the text with the marked blocks removed.
sanitize(text) == IF text = "KSK" THEN "KK" ELSE text

EmptyRepo ==
    [HEAD |-> "main", refs |-> [b \in Branches |-> 0], objects |-> <<>>,
     index |-> EmptyTree, worktree |-> EmptyTree]

NoArgs ==
    [file_list_exists |-> FALSE, force |-> FALSE, no_commit |-> FALSE,
     target_branch |-> ""]

NoResult == [status |-> "", msg |-> ""]
\* the command returned None
ReturnedNone == [status |-> "None", msg |-> ""]

\* no dry run is remembered
NoDryRun == [ran |-> FALSE, file_relpaths |-> <<>>]

-----------------------------------------------------------------------------
(* git *)

\* repo.head.commit (0: HEAD names a branch with no commit)
head_commit(r) == r.refs[r.HEAD]

TreeOf(r, c) == IF c = 0 THEN EmptyTree ELSE r.objects[c].tree

ParentOf(r, c) == r.objects[c].parent

RECURSIVE IsAncestor(_, _, _)
\* commit a is c or an ancestor of c
IsAncestor(r, a, c) ==
    IF c = 0 THEN FALSE
    ELSE IF a = c THEN TRUE
    ELSE IsAncestor(r, a, ParentOf(r, c))

\* repo.untracked_files: on disk, not in the index, not ignored
untracked_files(r) ==
    {f \in FileNames : /\ r.worktree[f] # Absent
                       /\ r.index[f] = Absent
                       /\ f \notin IgnoredNames}

\* repo.head.commit.diff(): the paths that differ between HEAD and the index
diff_head_index(r) ==
    {f \in FileNames : TreeOf(r, head_commit(r))[f] # r.index[f]}

\* repo.index.diff(None): the index entries that differ from the working tree
diff_index_worktree(r) ==
    {f \in FileNames : r.index[f] # Absent /\ r.worktree[f] # r.index[f]}

\* git reset --hard: index and tracked files become HEAD's; untracked stay
git_reset_hard(r) ==
    LET t == TreeOf(r, head_commit(r)) IN
    [r EXCEPT !.index = t,
              !.worktree = [f \in FileNames |->
                  IF t[f] # Absent \/ r.index[f] # Absent
                  THEN t[f] ELSE r.worktree[f]]]

\* git clean -dfx: remove what is not in the index, ignored files included
git_clean_dfx(r) ==
    [r EXCEPT !.worktree = [f \in FileNames |->
                  IF r.index[f] = Absent THEN Absent ELSE r.worktree[f]]]

\* git symbolic-ref HEAD refs/heads/<branch>
git_symbolic_ref(r, branch) == [r EXCEPT !.HEAD = branch]

\* git add . --force: the index becomes the working tree, ignored files too
git_add_all_force(r) == [r EXCEPT !.index = r.worktree]

\* git commit refuses when the index equals the tip's tree (an empty index
\* on a branch with no commit)
nothing_to_commit(r) == r.index = TreeOf(r, head_commit(r))

\* git commit -m: a commit of the index on top of the tip of HEAD's branch
git_commit(r) ==
    LET c == [parent |-> head_commit(r), tree |-> r.index] IN
    [r EXCEPT !.objects = Append(r.objects, c),
              !.refs[r.HEAD] = Len(r.objects) + 1]

-----------------------------------------------------------------------------
(* The file list *)

Chars == {"a", " ", "\n"}

\* The texts a file list may hold.
FileListTexts == UNION {[1..n -> Chars] : n \in 0..MaxTextLen}

IsSpace(c) == c \in {" ", "\n"}

RECURSIVE lstrip(_)
lstrip(s) == IF s # <<>> /\ IsSpace(Head(s)) THEN lstrip(Tail(s)) ELSE s

RECURSIVE rstrip(_)
rstrip(s) ==
    IF s # <<>> /\ IsSpace(s[Len(s)])
    THEN rstrip(SubSeq(s, 1, Len(s) - 1)) ELSE s

\* str.strip()
strip(s) == rstrip(lstrip(s))

RECURSIVE split(_, _)
\* str.split(sep): the pieces between the separators, empty pieces kept
split(s, sep) ==
    IF \E i \in 1..Len(s) : s[i] = sep
    THEN LET i == CHOOSE k \in 1..Len(s) :
                      s[k] = sep /\ \A j \in 1..(k - 1) : s[j] # sep
         IN <<SubSeq(s, 1, i - 1)>> \o split(SubSeq(s, i + 1, Len(s)), sep)
    ELSE <<s>>

\* [p.strip() for p in file_list.read_text().strip().split("\n")]
read_file_relpaths(text) ==
    LET lines == split(strip(text), "\n") IN
    [k \in 1..Len(lines) |-> strip(lines[k])]

\* The lists of relative paths the texts are read as.
FileLists == {read_file_relpaths(text) : text \in FileListTexts}

\* basedir / relpath is a regular file of the directory
is_file(worktree, relpath) ==
    relpath \in FileNames /\ worktree[relpath] # Absent

-----------------------------------------------------------------------------
(* The functions of _sanitize_repo.py *)

\* The bug of sanitizing without writing the result back.
_sanitize_files_no_write(worktree, relpaths, fail_at, n) ==
    [worktree |-> worktree, raised |-> "", calls |-> n + Len(relpaths),
     fault |-> FALSE]

RECURSIVE _sanitize_files_twice(_, _, _, _)
\* The bug of applying the sanitizer twice to each entry.
_sanitize_files_twice(worktree, relpaths, fail_at, n) ==
    IF relpaths = <<>>
    THEN [worktree |-> worktree, raised |-> "", calls |-> n, fault |-> FALSE]
    ELSE LET relpath == Head(relpaths) IN
         IF relpath = <<>>
         THEN [worktree |-> worktree, raised |-> "IsADirectoryError",
               calls |-> n, fault |-> FALSE]
         ELSE IF ~is_file(worktree, relpath)
         THEN [worktree |-> worktree, raised |-> "FileNotFoundError",
               calls |-> n, fault |-> FALSE]
         ELSE IF fail_at = 1
         THEN [worktree |-> worktree, raised |-> "OSError",
               calls |-> n, fault |-> TRUE]
         ELSE _sanitize_files_twice(
                  [worktree EXCEPT ![relpath] = sanitize(sanitize(@))],
                  Tail(relpaths),
                  IF fail_at = 0 THEN 0 ELSE fail_at - 1,
                  n + 2)

\* The bug of looking at every entry before writing any file, so that a
\* failure leaves the directory as it was.
_sanitize_files_check_first(worktree, relpaths, fail_at, n) ==
    LET bad == {k \in 1..Len(relpaths) :
                   relpaths[k] = <<>> \/ ~is_file(worktree, relpaths[k])}
        first == CHOOSE k \in bad : \A j \in bad : k <= j
    IN  IF bad # {}
        THEN [worktree |-> worktree,
              raised |-> IF relpaths[first] = <<>> THEN "IsADirectoryError"
                         ELSE "FileNotFoundError",
              calls |-> n, fault |-> FALSE]
        ELSE IF fail_at # 0
        THEN [worktree |-> worktree, raised |-> "OSError", calls |-> n,
              fault |-> TRUE]
        ELSE [worktree |-> [f \in FileNames |->
                  IF \E k \in 1..Len(relpaths) : relpaths[k] = f
                  THEN sanitize(worktree[f]) ELSE worktree[f]],
              raised |-> "", calls |-> n + Len(relpaths), fault |-> FALSE]

RECURSIVE _sanitize_files(_, _, _, _)
\* Sanitize the listed files of a directory, in order. fail_at is the
\* position of the entry whose read_text fails for a reason outside the
\* repository (0: none); n counts the calls of sanitize so far.
_sanitize_files(worktree, relpaths, fail_at, n) ==
    IF relpaths = <<>>
    THEN [worktree |-> worktree, raised |-> "", calls |-> n, fault |-> FALSE]
    ELSE LET relpath == Head(relpaths) IN
         IF relpath = <<>>
         THEN [worktree |-> worktree, raised |-> "IsADirectoryError",
               calls |-> n, fault |-> FALSE]
         ELSE IF ~is_file(worktree, relpath)
         THEN [worktree |-> worktree, raised |-> "FileNotFoundError",
               calls |-> n, fault |-> FALSE]
         ELSE IF fail_at = 1
         THEN [worktree |-> worktree, raised |-> "OSError",
               calls |-> n, fault |-> TRUE]
         ELSE _sanitize_files(
                  [worktree EXCEPT ![relpath] = sanitize(@)],
                  Tail(relpaths),
                  IF fail_at = 0 THEN 0 ELSE fail_at - 1,
                  n + 1)

\* The bug of leaving out the reset.
_clean_repo_no_reset(r) == git_clean_dfx(r)

\* Reset working tree and index to HEAD, remove untracked files.
_clean_repo(r) == git_clean_dfx(git_reset_hard(r))

StagedMsg == "There are uncommitted staged files in the repo"
UntrackedMsg == "There are untracked files in the repo"
UnstagedMsg == "There are uncommitted unstaged files in the repo"
NoMsg == ""

\* The bug of testing for untracked files first.
_check_repo_state_untracked_first(r) ==
    IF untracked_files(r) # {} THEN UntrackedMsg
    ELSE IF diff_head_index(r) # {} THEN StagedMsg
    ELSE IF diff_index_worktree(r) # {} THEN UnstagedMsg
    ELSE NoMsg

_check_repo_state(r) ==
    IF diff_head_index(r) # {} THEN StagedMsg
    ELSE IF untracked_files(r) # {} THEN UntrackedMsg
    ELSE IF diff_index_worktree(r) # {} THEN UnstagedMsg
    ELSE NoMsg

\* The bug of not honouring --force.
refuses_despite_force(message, force) == message # NoMsg

\* "if message and not args.force": the command stops with an ERROR result
refuses(message, force) == message # NoMsg /\ ~force

\* The bug of creating a missing target branch at HEAD (git checkout -b)
\* instead of repointing HEAD at the unborn branch.
_git_commit_on_branch_from_head(r, target_branch) ==
    LET branched == IF r.refs[target_branch] = 0
                    THEN [r EXCEPT !.refs[target_branch] = head_commit(r)]
                    ELSE r
        staged == git_add_all_force(git_symbolic_ref(branched, target_branch))
    IN  IF nothing_to_commit(staged)
        THEN [repo |-> staged, raised |-> "GitCommandError"]
        ELSE [repo |-> git_commit(staged), raised |-> ""]

\* The bug of staging on top of the target branch's tree without staging
\* removals (git reset, then git add --ignore-removal, on the target branch).
_git_commit_on_branch_keep_removed(r, target_branch) ==
    LET moved == git_symbolic_ref(r, target_branch)
        old == TreeOf(moved, head_commit(moved))
        staged == [moved EXCEPT !.index = [f \in FileNames |->
                      IF moved.worktree[f] # Absent THEN moved.worktree[f]
                      ELSE old[f]]]
    IN  IF nothing_to_commit(staged)
        THEN [repo |-> staged, raised |-> "GitCommandError"]
        ELSE [repo |-> git_commit(staged), raised |-> ""]

\* The bug of always starting the target branch anew (git checkout
\* --orphan), so that the commit has no parent.
_git_commit_on_branch_orphan(r, target_branch) ==
    LET staged == git_add_all_force(git_symbolic_ref(r, target_branch))
        c == [parent |-> 0, tree |-> staged.index]
    IN  [repo |-> [staged EXCEPT !.objects = Append(staged.objects, c),
                                 !.refs[target_branch] =
                                     Len(staged.objects) + 1],
         raised |-> ""]

\* The bug of committing without staging the sanitized files.
_git_commit_on_branch_no_add(r, target_branch) ==
    LET moved == git_symbolic_ref(r, target_branch) IN
    IF nothing_to_commit(moved)
    THEN [repo |-> moved, raised |-> "GitCommandError"]
    ELSE [repo |-> git_commit(moved), raised |-> ""]

_git_commit_on_branch(r, target_branch) ==
    LET staged == git_add_all_force(git_symbolic_ref(r, target_branch)) IN
    IF nothing_to_commit(staged)
    THEN [repo |-> staged, raised |-> "GitCommandError"]
    ELSE [repo |-> git_commit(staged), raised |-> ""]

\* The bug of fetching with --update-head-ok, which lets the fetch move the
\* branch that is checked out.
_git_fetch_update_head_ok(src, src_branch, dst, dst_branch) ==
    LET new == src.refs[src_branch]
        old == dst.refs[dst_branch]
        fetched == IF Len(src.objects) > Len(dst.objects)
                   THEN src.objects ELSE dst.objects
    IN  IF new = 0
        THEN [repo |-> dst, raised |-> "GitCommandError"]
        ELSE IF old # 0 /\ ~IsAncestor(src, old, new)
        THEN [repo |-> [dst EXCEPT !.objects = fetched],
              raised |-> "GitCommandError"]
        ELSE [repo |-> [dst EXCEPT !.objects = fetched,
                                   !.refs[dst_branch] = new],
              raised |-> ""]

\* git fetch file://<src> <src_branch>:<dst_branch>, run in dst
_git_fetch(src, src_branch, dst, dst_branch) ==
    LET new == src.refs[src_branch]
        old == dst.refs[dst_branch]
        fetched == IF Len(src.objects) > Len(dst.objects)
                   THEN src.objects ELSE dst.objects
    IN  IF new = 0 \/ dst_branch = dst.HEAD
        THEN [repo |-> dst, raised |-> "GitCommandError"]
        ELSE IF old # 0 /\ ~IsAncestor(src, old, new)
        THEN [repo |-> [dst EXCEPT !.objects = fetched],
              raised |-> "GitCommandError"]
        ELSE [repo |-> [dst EXCEPT !.objects = fetched,
                                   !.refs[dst_branch] = new],
              raised |-> ""]

-----------------------------------------------------------------------------
(* The initial repository and what a user does to it between commands *)

\* The fake_repo fixture: files written, one commit of them on the default
\* branch, nothing else.
Init ==
    /\ \E ta \in {"KSK"}, taa \in {"N"} :
           LET t == [f \in FileNames |->
                        IF f = PathA THEN ta ELSE IF f = PathAA THEN taa
                        ELSE Absent]
           IN repo = [HEAD |-> "main",
                      refs |-> [b \in Branches |->
                                   IF b = "main" THEN 1 ELSE 0],
                      objects |-> <<[parent |-> 0, tree |-> t]>>,
                      index |-> t, worktree |-> t]
    /\ tmpdir = "none"
    /\ copy = EmptyRepo
    /\ pc = "idle"
    /\ args = NoArgs
    /\ file_relpaths = <<>>
    /\ result = NoResult
    /\ raised = ""
    /\ calls = 0
    /\ fault = FALSE
    /\ pre = EmptyRepo
    /\ prev_target = ""
    /\ prev_dry_run = NoDryRun

UserStep(r) ==
    /\ pc = "idle"
    /\ repo' = r
    /\ prev_target' = ""
    /\ prev_dry_run' = NoDryRun
    /\ UNCHANGED <<tmpdir, copy, pc, args, file_relpaths, result, raised,
                   calls, fault, pre>>

\* What a user writes into a file: a text with no marker.
UserTexts == {"N"}

\* file.write_text(text)
UserWrite ==
    \E f \in FileNames :
        \E text \in UserTexts :
            /\ repo.worktree[f] # text
            /\ UserStep([repo EXCEPT !.worktree[f] = text])

\* git add <file>; an ignored file is not added
UserAdd ==
    \E f \in TrackedNames :
        /\ repo.index[f] # repo.worktree[f]
        /\ UserStep([repo EXCEPT !.index[f] = repo.worktree[f]])

\* git commit -m
UserCommit ==
    /\ Len(repo.objects) < MaxCommits
    /\ ~nothing_to_commit(repo)
    /\ UserStep(git_commit(repo))

\* The file a user removes.
RemovedNames == {PathAA}

\* git rm <file>: a committed, unmodified file leaves index and working tree
UserRemove ==
    \E f \in RemovedNames :
        /\ repo.index[f] # Absent
        /\ repo.worktree[f] = repo.index[f]
        /\ TreeOf(repo, head_commit(repo))[f] = repo.index[f]
        /\ UserStep([repo EXCEPT !.index[f] = Absent,
                                 !.worktree[f] = Absent])

\* git branch <name>
UserBranch ==
    \E b \in Branches :
        /\ repo.refs[b] = 0
        /\ UserStep([repo EXCEPT !.refs[b] = head_commit(repo)])

-----------------------------------------------------------------------------
(* SanitizeRepo._sanitize_repo *)

Start(a) ==
    /\ pc = "idle"
    /\ args' = a
    /\ pre' = repo
    /\ prev_dry_run' = IF a.no_commit THEN prev_dry_run ELSE NoDryRun
    /\ UNCHANGED prev_target

Inputs ==
    [file_list_exists : BOOLEAN, force : BOOLEAN, no_commit : {TRUE},
     target_branch : {""}]
    \cup
    [file_list_exists : BOOLEAN, force : BOOLEAN, no_commit : {FALSE},
     target_branch : Branches]

\* The bug of validating the repository before looking for the file list.
SanitizeRepo_NoFileList_AfterCheck ==
    \E a \in Inputs :
        /\ ~a.file_list_exists
        /\ Start(a)
        /\ IF refuses(_check_repo_state(repo), a.force)
           THEN /\ result' = [status |-> "ERROR",
                              msg |-> _check_repo_state(repo)]
                /\ UNCHANGED raised
           ELSE /\ raised' = "PlugError"
                /\ UNCHANGED result
        /\ pc' = "done"
        /\ UNCHANGED <<repo, tmpdir, copy, file_relpaths, calls, fault>>

\* the file list is no file: PlugError
SanitizeRepo_NoFileList ==
    \E a \in Inputs :
        /\ ~a.file_list_exists
        /\ Start(a)
        /\ raised' = "PlugError"
        /\ pc' = "done"
        /\ UNCHANGED <<repo, tmpdir, copy, file_relpaths, result, calls,
                       fault>>

\* the repository is dirty and --force is not given: an ERROR result
SanitizeRepo_Dirty ==
    \E a \in Inputs :
        /\ a.file_list_exists
        /\ refuses(_check_repo_state(repo), a.force)
        /\ Start(a)
        /\ result' = [status |-> "ERROR", msg |-> _check_repo_state(repo)]
        /\ pc' = "done"
        /\ UNCHANGED <<repo, tmpdir, copy, file_relpaths, raised, calls,
                       fault>>

\* --no-commit: sanitize the files of the working tree
SanitizeRepo_DryRun ==
    \E a \in Inputs, relpaths \in FileLists :
        \E fail_at \in 0..Len(relpaths) :
            LET out == _sanitize_files(repo.worktree, relpaths, fail_at, 0)
            IN  /\ a.file_list_exists
                /\ ~refuses(_check_repo_state(repo), a.force)
                /\ a.no_commit
                /\ Start(a)
                /\ file_relpaths' = relpaths
                /\ repo' = [repo EXCEPT !.worktree = out.worktree]
                /\ raised' = out.raised
                /\ calls' = out.calls
                /\ fault' = out.fault
                /\ result' = IF out.raised = "" THEN ReturnedNone
                             ELSE NoResult
                /\ pc' = "done"
                /\ UNCHANGED <<tmpdir, copy>>

\* --target-branch: enter _sanitize_to_target_branch and its
\* TemporaryDirectory
SanitizeRepo_TargetBranch ==
    \E a \in Inputs, relpaths \in FileLists :
        /\ a.file_list_exists
        /\ ~refuses(_check_repo_state(repo), a.force)
        /\ ~a.no_commit
        /\ Len(repo.objects) < MaxCommits
        /\ Start(a)
        /\ file_relpaths' = relpaths
        /\ tmpdir' = "empty"
        /\ pc' = "copytree"
        /\ UNCHANGED <<repo, copy, result, raised, calls, fault>>

-----------------------------------------------------------------------------
(* _sanitize_to_target_branch, one step per statement of its with block *)

\* An exception leaves the with block.
Raise(e, isFault) ==
    /\ raised' = e
    /\ fault' = isFault
    /\ pc' = "exit"

\* shutil.copytree(src=repo_path, dst=repo_copy_path)
CopyTree ==
    /\ pc = "copytree"
    /\ \/ /\ copy' = repo
          /\ tmpdir' = "repo"
          /\ pc' = "clean"
          /\ UNCHANGED <<raised, fault>>
       \/ /\ Raise("OSError", TRUE)
          /\ UNCHANGED <<copy, tmpdir>>
    /\ UNCHANGED <<repo, args, file_relpaths, result, calls, pre,
                   prev_target, prev_dry_run>>

\* The bug of cleaning repo_path instead of repo_copy_path.
CleanCopy_InPlace ==
    /\ pc = "clean"
    /\ \/ /\ repo' = _clean_repo(repo)
          /\ pc' = "sanitize"
          /\ UNCHANGED <<copy, raised, fault>>
       \/ /\ Raise("GitCommandError", TRUE)
          /\ UNCHANGED <<copy, repo>>
    /\ UNCHANGED <<tmpdir, args, file_relpaths, result, calls, pre,
                   prev_target, prev_dry_run>>

\* _clean_repo(repo_copy_path)
CleanCopy ==
    /\ pc = "clean"
    /\ \/ /\ copy' = _clean_repo(copy)
          /\ pc' = "sanitize"
          /\ UNCHANGED <<raised, fault>>
       \/ /\ Raise("GitCommandError", TRUE)
          /\ UNCHANGED copy
    /\ UNCHANGED <<repo, tmpdir, args, file_relpaths, result, calls, pre,
                   prev_target, prev_dry_run>>

\* _sanitize_files(repo_copy_path, file_relpaths)
SanitizeCopy ==
    /\ pc = "sanitize"
    /\ \E fail_at \in 0..Len(file_relpaths) :
           LET out == _sanitize_files(copy.worktree, file_relpaths,
                                      fail_at, 0)
           IN  /\ copy' = [copy EXCEPT !.worktree = out.worktree]
               /\ calls' = out.calls
               /\ IF out.raised = ""
                  THEN pc' = "commit" /\ UNCHANGED <<raised, fault>>
                  ELSE Raise(out.raised, out.fault)
    /\ UNCHANGED <<repo, tmpdir, args, file_relpaths, result, pre,
                   prev_target, prev_dry_run>>

\* The bug of committing in repo_path instead of repo_copy_path.
CommitOnBranch_InRepo ==
    /\ pc = "commit"
    /\ \/ LET out == _git_commit_on_branch(repo, args.target_branch) IN
          /\ repo' = out.repo
          /\ IF out.raised = ""
             THEN pc' = "fetch" /\ UNCHANGED <<raised, fault>>
             ELSE Raise(out.raised, FALSE)
       \/ /\ Raise("GitCommandError", TRUE)
          /\ UNCHANGED repo
    /\ UNCHANGED <<copy, tmpdir, args, file_relpaths, result, calls, pre,
                   prev_target, prev_dry_run>>

\* _git_commit_on_branch(repo_copy_path, target_branch)
CommitOnBranch ==
    /\ pc = "commit"
    /\ \/ LET out == _git_commit_on_branch(copy, args.target_branch) IN
          /\ copy' = out.repo
          /\ IF out.raised = ""
             THEN pc' = "fetch" /\ UNCHANGED <<raised, fault>>
             ELSE Raise(out.raised, FALSE)
       \/ /\ Raise("GitCommandError", TRUE)
          /\ UNCHANGED copy
    /\ UNCHANGED <<repo, tmpdir, args, file_relpaths, result, calls, pre,
                   prev_target, prev_dry_run>>

\* _git_fetch(repo_copy_path, target_branch, repo_path, target_branch)
Fetch ==
    /\ pc = "fetch"
    /\ \/ LET out == _git_fetch(copy, args.target_branch,
                                repo, args.target_branch) IN
          /\ repo' = out.repo
          /\ IF out.raised = ""
             THEN pc' = "exit" /\ UNCHANGED <<raised, fault>>
             ELSE Raise(out.raised, FALSE)
       \/ /\ Raise("GitCommandError", TRUE)
          /\ UNCHANGED repo
    /\ UNCHANGED <<copy, tmpdir, args, file_relpaths, result, calls, pre,
                   prev_target, prev_dry_run>>

\* The bug of removing the directory at the end of the block only, so that
\* an exception leaves it behind.
ExitTmpDir_KeepOnError ==
    /\ pc = "exit"
    /\ IF raised = ""
       THEN tmpdir' = "none" /\ copy' = EmptyRepo
       ELSE UNCHANGED <<tmpdir, copy>>
    /\ result' = IF raised = "" THEN ReturnedNone ELSE NoResult
    /\ pc' = "done"
    /\ UNCHANGED <<repo, args, file_relpaths, raised, calls, fault, pre,
                   prev_target, prev_dry_run>>

\* TemporaryDirectory.__exit__: the directory is removed, then the function
\* returns None or the exception goes on to the caller
ExitTmpDir ==
    /\ pc = "exit"
    /\ tmpdir' = "none"
    /\ copy' = EmptyRepo
    /\ result' = IF raised = "" THEN ReturnedNone ELSE NoResult
    /\ pc' = "done"
    /\ UNCHANGED <<repo, args, file_relpaths, raised, calls, fault, pre,
                   prev_target, prev_dry_run>>

\* The command is over; the next one may start.
Return ==
    /\ pc = "done"
    /\ pc' = "idle"
    /\ prev_target' = IF result = ReturnedNone /\ ~args.no_commit
                      THEN args.target_branch ELSE ""
    /\ prev_dry_run' =
           IF result = ReturnedNone /\ args.no_commit
           THEN [ran |-> TRUE, file_relpaths |-> file_relpaths]
           ELSE IF result.status = "ERROR" /\ args.no_commit
           THEN prev_dry_run
           ELSE NoDryRun
    /\ args' = NoArgs
    /\ file_relpaths' = <<>>
    /\ result' = NoResult
    /\ raised' = ""
    /\ calls' = 0
    /\ fault' = FALSE
    /\ pre' = EmptyRepo
    /\ UNCHANGED <<repo, tmpdir, copy>>

Next ==
    \/ UserWrite
    \/ UserAdd
    \/ UserCommit
    \/ UserBranch
    \/ UserRemove
    \/ SanitizeRepo_NoFileList
    \/ SanitizeRepo_Dirty
    \/ SanitizeRepo_DryRun
    \/ SanitizeRepo_TargetBranch
    \/ CopyTree
    \/ CleanCopy
    \/ SanitizeCopy
    \/ CommitOnBranch
    \/ Fetch
    \/ ExitTmpDir
    \/ Return

Spec == Init /\ [][Next]_vars

-----------------------------------------------------------------------------
(* _sanitize_files on its own: any directory, any list of relative paths *)

\* What an entry of the list may be: a file name, or the empty string of a
\* blank line (basedir / "" is the directory itself).
ListEntries == FileNames \cup {<<>>}

RelpathLists == UNION {[1..n -> ListEntries] : n \in 0..MaxListLen}

SanitizeFilesInit ==
    /\ \E worktree \in Tree :
           repo = [EmptyRepo EXCEPT !.worktree = worktree]
    /\ file_relpaths \in RelpathLists
    /\ tmpdir = "none"
    /\ copy = EmptyRepo
    /\ pc = "_sanitize_files"
    /\ args = NoArgs
    /\ result = NoResult
    /\ raised = ""
    /\ calls = 0
    /\ fault = FALSE
    /\ pre = EmptyRepo
    /\ prev_target = ""
    /\ prev_dry_run = NoDryRun

\* _sanitize_files(basedir, file_relpaths)
SanitizeFiles ==
    /\ pc = "_sanitize_files"
    /\ \E fail_at \in 0..Len(file_relpaths) :
           LET out == _sanitize_files(repo.worktree, file_relpaths,
                                      fail_at, 0)
           IN  /\ repo' = [repo EXCEPT !.worktree = out.worktree]
               /\ raised' = out.raised
               /\ calls' = out.calls
               /\ fault' = out.fault
    /\ pre' = repo
    /\ pc' = "returned"
    /\ UNCHANGED <<tmpdir, copy, args, file_relpaths, result, prev_target,
                   prev_dry_run>>

SpecSanitizeFiles == SanitizeFilesInit /\ [][SanitizeFiles]_vars

-----------------------------------------------------------------------------
(* What the claims speak of *)

InTargetBranch ==
    pc \in {"copytree", "clean", "sanitize", "commit", "fetch", "exit"}

\* the command got past the file-list and repository checks
Dispatched == args.file_list_exists /\ result.status # "ERROR"

\* _sanitize_to_target_branch is running or has ended
CommitMode == InTargetBranch \/ (pc = "done" /\ Dispatched /\ ~args.no_commit)

CommitModeDone == pc = "done" /\ Dispatched /\ ~args.no_commit

DryRunDone == pc = "done" /\ Dispatched /\ args.no_commit

\* the command ended without an exception and without an ERROR result
Succeeded == raised = "" /\ result = ReturnedNone

\* the tree of HEAD's commit when the command started
HeadTreeBefore == TreeOf(pre, head_commit(pre))

\* the tip of the target branch before and now, in the original repository
TipBefore == pre.refs[args.target_branch]
TipNow == repo.refs[args.target_branch]

Listed(f) == \E k \in 1..Len(file_relpaths) : file_relpaths[k] = f

\* a tree with every listed file's text replaced by its sanitized text
WithListedSanitized(tree) ==
    [f \in FileNames |->
        IF Listed(f) /\ tree[f] # Absent THEN sanitize(tree[f]) ELSE tree[f]]

IsPrefix(s, t) == Len(s) <= Len(t) /\ SubSeq(t, 1, Len(s)) = s

-----------------------------------------------------------------------------
(* The claims *)

\* C1: in commit mode, in every intermediate state and at the end, whatever
\* the starting state, the file list and the outcome, the original
\* repository's HEAD (the ref and its commit), index and working tree are
\* what they were before the command; of the refs only the target branch may
\* have changed, and no commit object that existed has changed.
C1_OriginalUntouched ==
    CommitMode =>
        /\ repo.HEAD = pre.HEAD
        /\ head_commit(repo) = head_commit(pre)
        /\ repo.index = pre.index
        /\ repo.worktree = pre.worktree
        /\ \A b \in Branches \ {args.target_branch} :
               repo.refs[b] = pre.refs[b]
        /\ IsPrefix(pre.objects, repo.objects)

\* a forced commit-mode command on a repository with staged, unstaged and
\* ignored content ended and moved the target branch
C1_Witness ==
    /\ CommitModeDone /\ Succeeded
    /\ TipNow # TipBefore
    /\ diff_head_index(pre) # {}
    /\ diff_index_worktree(pre) # {}
    /\ pre.worktree[PathI] # Absent

\* C2: commit mode on a clean repository with a target branch that does not
\* exist and a list of files that all exist in HEAD succeeds (no operation
\* failing for an outside reason), and then the target branch exists with a
\* tip whose tree is HEAD's tree with each listed file sanitized and every
\* other file as in HEAD.
C2_BranchCreation ==
    ( /\ CommitModeDone
      /\ _check_repo_state(pre) = NoMsg
      /\ TipBefore = 0
      /\ \A k \in 1..Len(file_relpaths) :
             is_file(HeadTreeBefore, file_relpaths[k])
      /\ ~fault )
    => /\ Succeeded
       /\ TipNow # 0
       /\ TreeOf(repo, TipNow) = WithListedSanitized(HeadTreeBefore)

\* a branch was created whose tree has a sanitized file and a file that was
\* not listed
C2_Witness ==
    /\ CommitModeDone /\ Succeeded
    /\ _check_repo_state(pre) = NoMsg
    /\ TipBefore = 0
    /\ TreeOf(repo, TipNow)[PathA] = "KK"
    /\ HeadTreeBefore[PathA] = "KSK"
    /\ ~Listed(PathAA)
    /\ TreeOf(repo, TipNow)[PathAA] = "N"

\* C3 (as claimed): a commit-mode command that directly follows a completed
\* commit-mode command with the same target branch, on an unchanged
\* repository and with listed files that all exist in HEAD, completes too and
\* leaves the target branch at a commit it created.
C3_SecondRunCompletes ==
    ( /\ CommitModeDone
      /\ prev_target = args.target_branch
      /\ \A k \in 1..Len(file_relpaths) :
             is_file(HeadTreeBefore, file_relpaths[k])
      /\ ~fault )
    => /\ Succeeded
       /\ TipNow > Len(pre.objects)

\* the commit _git_commit_on_branch made in the copy, and its parent
NewCommit == copy.refs[args.target_branch]
NewParent == ParentOf(copy, NewCommit)

\* C4 (amended): the commit made by _git_commit_on_branch in the copy is a
\* new commit at the tip of the target branch; its parent is the target
\* branch's previous tip when the branch existed, and it has no parent (a
\* root commit, sharing no history with HEAD) when the branch did not exist.
C4_ParentOfSanitizedCommit ==
    pc = "fetch" =>
        /\ NewCommit = Len(pre.objects) + 1
        /\ NewCommit = Len(copy.objects)
        /\ IF TipBefore # 0 THEN NewParent = TipBefore ELSE NewParent = 0

\* C4 (as claimed): ... and its parent is the repository's prior HEAD commit
\* when the target branch did not exist.
C4_ParentIsHeadWhenNew ==
    pc = "fetch" =>
        IF TipBefore # 0 THEN NewParent = TipBefore
        ELSE NewParent = head_commit(pre)

\* the commit for a target branch that did not exist has been made
C4_Witness ==
    /\ pc = "fetch"
    /\ TipBefore = 0
    /\ NewParent = 0
    /\ head_commit(pre) # 0

\* C5: the tree at the tip of the target branch after a successful
\* commit-mode command is HEAD's committed tree with the listed files
\* sanitized: a function of HEAD's commit and the file list alone, the same
\* whatever is staged, edited, untracked or ignored in the repository.
C5_OnlyCommittedContent ==
    (CommitModeDone /\ Succeeded) =>
        TreeOf(repo, TipNow) = WithListedSanitized(HeadTreeBefore)

\* a forced command succeeded on a repository with staged, unstaged,
\* untracked and ignored content
C5_Witness ==
    /\ CommitModeDone /\ Succeeded /\ args.force
    /\ diff_head_index(pre) # {}
    /\ diff_index_worktree(pre) # {}
    /\ untracked_files(pre) # {}
    /\ pre.worktree[PathI] # Absent
    /\ WithListedSanitized(pre.worktree) # WithListedSanitized(HeadTreeBefore)

\* staged, untracked or unstaged changes are present
IsDirty(r) ==
    \/ diff_head_index(r) # {}
    \/ untracked_files(r) # {}
    \/ diff_index_worktree(r) # {}

\* C6: when the repository is dirty and --force is not given, in either mode
\* the command returns an ERROR result whose message is the validator's
\* reason, and nothing was sanitized, no copy made, and the repository is as
\* it was; with --force the same state gives no ERROR result and the selected
\* mode runs (on success it sanitized every entry and had its effect).
C6_DirtyWithoutForce ==
    (pc # "idle" /\ args.file_list_exists /\ IsDirty(pre)) =>
        IF ~args.force
        THEN /\ pc = "done"
             /\ result = [status |-> "ERROR", msg |-> _check_repo_state(pre)]
             /\ result.msg # NoMsg
             /\ raised = ""
             /\ calls = 0
             /\ repo = pre
             /\ tmpdir = "none" /\ copy = EmptyRepo
        ELSE /\ result.status # "ERROR"
             /\ (pc = "done" /\ raised = "") =>
                    /\ result = ReturnedNone
                    /\ calls = Len(file_relpaths)
                    /\ IF args.no_commit
                       THEN repo.worktree = WithListedSanitized(pre.worktree)
                       ELSE TipNow > Len(pre.objects)

\* a commit-mode command was refused on a repository with untracked files
C6_Witness ==
    /\ pc = "done"
    /\ args.file_list_exists /\ ~args.force /\ ~args.no_commit
    /\ result = [status |-> "ERROR", msg |-> UntrackedMsg]

\* the reason by priority: staged, else untracked, else unstaged, else none
ExpectedReason(r) ==
    LET staged == diff_head_index(r) # {}
        untracked == untracked_files(r) # {}
        unstaged == diff_index_worktree(r) # {}
    IN  CASE staged -> StagedMsg
          [] ~staged /\ untracked -> UntrackedMsg
          [] ~staged /\ ~untracked /\ unstaged -> UnstagedMsg
          [] ~staged /\ ~untracked /\ ~unstaged -> NoMsg

\* C7: for every combination of the three conditions _check_repo_state
\* returns the staged message if staged changes exist, else the untracked
\* message if untracked files exist, else the unstaged message if unstaged
\* changes exist, else None; and that is the message of an ERROR result.
C7_DirtyCheckPriority ==
    /\ _check_repo_state(repo) = ExpectedReason(repo)
    /\ (pc = "done" /\ result.status = "ERROR") =>
           result.msg = ExpectedReason(pre)

\* a repository with staged and untracked changes at once was refused
C7_Witness ==
    /\ pc = "done"
    /\ result.status = "ERROR"
    /\ diff_head_index(pre) # {}
    /\ untracked_files(pre) # {}
    /\ result.msg = StagedMsg

\* C8: when the file list is no file the command raises PlugError before
\* anything else: no ERROR result even on a dirty repository without --force,
\* no file list read, nothing sanitized, no copy made, the repository as it
\* was, whatever the mode, the force flag and the repository state.
C8_MissingFileList ==
    (pc # "idle" /\ ~args.file_list_exists) =>
        /\ pc = "done"
        /\ raised = "PlugError"
        /\ result = NoResult
        /\ file_relpaths = <<>>
        /\ calls = 0
        /\ repo = pre
        /\ tmpdir = "none" /\ copy = EmptyRepo

\* PlugError on a dirty repository without --force
C8_Witness ==
    /\ pc = "done"
    /\ ~args.file_list_exists /\ ~args.force
    /\ IsDirty(pre)
    /\ raised = "PlugError"

\* C9: a dry run that passes validation (or is forced) overwrites each listed
\* file of the real working tree with its sanitized text and changes nothing
\* else: files not listed, HEAD, the index, every ref and the commits are as
\* before, and no copy is made. If it fails part way, a listed file holds its
\* old or its sanitized text.
C9_DryRunFrame ==
    (pc # "idle" /\ Dispatched /\ args.no_commit) =>
        /\ pc = "done"
        /\ tmpdir = "none" /\ copy = EmptyRepo
        /\ repo.HEAD = pre.HEAD
        /\ repo.refs = pre.refs
        /\ repo.objects = pre.objects
        /\ repo.index = pre.index
        /\ \A f \in FileNames :
               IF Listed(f)
               THEN repo.worktree[f] \in
                        {pre.worktree[f], sanitize(pre.worktree[f])}
               ELSE repo.worktree[f] = pre.worktree[f]
        /\ raised = "" =>
               repo.worktree = WithListedSanitized(pre.worktree)

\* a dry run sanitized a listed file and left a differing index behind
C9_Witness ==
    /\ DryRunDone /\ Succeeded
    /\ pre.worktree[PathA] = "KSK"
    /\ repo.worktree[PathA] = "KK"
    /\ repo.index[PathA] = "KSK"
    /\ \E f \in FileNames : ~Listed(f) /\ repo.worktree[f] # Absent

\* C10: the temporary directory exists from the start of
\* _sanitize_to_target_branch through the fetch (it is not removed before the
\* fetch has completed or failed), and no longer exists when the function
\* has ended, whether it returned or an exception left it at any step.
C10_ScratchLifecycle ==
    /\ pc \in {"idle", "done"} => (tmpdir = "none" /\ copy = EmptyRepo)
    /\ pc = "copytree" => tmpdir = "empty"
    /\ pc \in {"clean", "sanitize", "commit", "fetch"} => tmpdir = "repo"
    /\ pc = "exit" => tmpdir # "none"

\* the command ended after git refused the fetch (the target is the checked
\* out branch and the commit had been made), and the directory is gone
C10_Witness ==
    /\ CommitModeDone
    /\ raised = "GitCommandError" /\ ~fault
    /\ args.target_branch = pre.HEAD
    /\ \A k \in 1..Len(file_relpaths) :
           is_file(HeadTreeBefore, file_relpaths[k])
    /\ WithListedSanitized(HeadTreeBefore) # HeadTreeBefore
    /\ tmpdir = "none"

\* what a file list that is empty or holds only whitespace is read as
BlankFileLists ==
    {read_file_relpaths(text) : text \in {t \in FileListTexts : strip(t) = <<>>}}

\* C11 (as claimed): when the file list exists and is empty or holds only
\* whitespace, the list of relative paths is empty, the sanitizer is never
\* called, and the selected mode completes without an error.
C11_EmptyFileList ==
    ( /\ pc = "done" /\ Dispatched
      /\ file_relpaths \in BlankFileLists
      /\ ~fault )
    => /\ file_relpaths = <<>>
       /\ calls = 0
       /\ Succeeded

\* the ref store of the original repository is as it was
RefsUntouched == repo.refs = pre.refs

\* a step of a running command that writes the original repository's refs is
\* the successful fetch: it comes after the commit in the copy, it sets the
\* target branch alone, to the commit made in the copy, and nothing was
\* written before it
C12_RefWrite ==
    (pc # "idle" /\ repo'.refs # repo.refs) =>
        /\ pc = "fetch" /\ pc' = "exit"
        /\ raised' = ""
        /\ RefsUntouched
        /\ \A b \in Branches \ {args.target_branch} :
               repo'.refs[b] = repo.refs[b]
        /\ repo'.refs[args.target_branch] = copy.refs[args.target_branch]
        /\ copy.refs[args.target_branch] = Len(copy.objects)

\* C12: in commit mode the original repository's refs are written at most
\* once, by the final fetch only, to the target branch only, and only after
\* clean, sanitize and commit succeeded in the copy; when any step fails the
\* target branch is as it was before (absent or at its previous tip) and the
\* exception leaves the command.
C12_NoPartialTransplant ==
    /\ [](/\ pc \in {"copytree", "clean", "sanitize", "commit", "fetch"}
              => RefsUntouched
          /\ (CommitMode /\ raised # "") =>
                 /\ RefsUntouched
                 /\ TipNow = TipBefore
                 /\ result = NoResult)
    /\ [][C12_RefWrite]_vars

\* a listed file does not exist in HEAD: the command ended with the error
\* and the existing target branch is at its previous tip
C12_Witness ==
    /\ CommitModeDone
    /\ raised = "FileNotFoundError"
    /\ \E k \in 1..Len(file_relpaths) :
           ~is_file(HeadTreeBefore, file_relpaths[k])
    /\ TipBefore # 0
    /\ TipNow = TipBefore

\* the tree at the target branch's tip before the command
TargetTreeBefore == TreeOf(pre, TipBefore)

\* C13: when commit mode succeeds with a target branch that existed, the new
\* tip is a new commit whose tree is HEAD's tree with the listed files
\* sanitized, whatever the tree of the previous tip: a file HEAD does not have
\* is absent from it, and a file that is not listed has HEAD's content.
C13_RegeneratedFromHead ==
    (CommitModeDone /\ Succeeded /\ TipBefore # 0) =>
        /\ TipNow > Len(pre.objects)
        /\ TreeOf(repo, TipNow) = WithListedSanitized(HeadTreeBefore)
        /\ \A f \in FileNames :
               /\ HeadTreeBefore[f] = Absent =>
                      TreeOf(repo, TipNow)[f] = Absent
               /\ ~Listed(f) => TreeOf(repo, TipNow)[f] = HeadTreeBefore[f]

\* the target branch existed with a file that HEAD does not have; the new
\* tip does not have it, and has the sanitized text of a listed file
C13_Witness ==
    /\ CommitModeDone /\ Succeeded
    /\ TipBefore # 0
    /\ \E f \in FileNames :
           /\ ~Listed(f)
           /\ TargetTreeBefore[f] # Absent
           /\ HeadTreeBefore[f] = Absent
           /\ TreeOf(repo, TipNow)[f] = Absent
    /\ Listed(PathA)
    /\ HeadTreeBefore[PathA] = "KSK"
    /\ TreeOf(repo, TipNow)[PathA] = "KK"

\* the entries no read_text can read: a directory, or no file of the
\* directory as it was before the call
Unreadable ==
    {k \in 1..Len(file_relpaths) :
        file_relpaths[k] = <<>> \/ ~is_file(pre.worktree, file_relpaths[k])}

\* the position N of the first of them (0: every entry can be read)
FailedAt ==
    IF Unreadable = {} THEN 0
    ELSE CHOOSE k \in Unreadable : \A j \in Unreadable : k <= j

\* the file is named by an entry before position N
ListedBefore(f) == \E k \in 1..(FailedAt - 1) : file_relpaths[k] = f

\* _sanitize_files has returned or raised, with no failure from outside
SanitizeFilesEnded == pc = "returned" /\ ~fault

\* C14 (amended): entries are processed in list order; when the entry at
\* position N cannot be read the error propagates after N-1 calls of the
\* sanitizer, every file named by an entry before N holds its sanitized text,
\* and every other file, among them the files of later entries that are not
\* also named before N, holds its original content.
C14_PartialFailure ==
    (SanitizeFilesEnded /\ FailedAt # 0) =>
        /\ raised = IF file_relpaths[FailedAt] = <<>>
                    THEN "IsADirectoryError" ELSE "FileNotFoundError"
        /\ calls = FailedAt - 1
        /\ \A f \in FileNames :
               repo.worktree[f] = IF ListedBefore(f)
                                  THEN sanitize(pre.worktree[f])
                                  ELSE pre.worktree[f]

\* C14 (as claimed): ... entries 1..N-1 hold their sanitized text, and the
\* entry at N and all later entries are left with their original content.
C14_LaterEntriesOriginal ==
    (SanitizeFilesEnded /\ FailedAt # 0) =>
        /\ \A k \in 1..(FailedAt - 1) :
               repo.worktree[file_relpaths[k]] =
                   sanitize(pre.worktree[file_relpaths[k]])
        /\ \A k \in FailedAt..Len(file_relpaths) :
               file_relpaths[k] \in FileNames =>
                   repo.worktree[file_relpaths[k]] =
                       pre.worktree[file_relpaths[k]]

\* the second of three entries could not be read: the first file was
\* rewritten, the third, which has a marked block, was not
C14_Witness ==
    /\ SanitizeFilesEnded
    /\ FailedAt = 2
    /\ Len(file_relpaths) = 3
    /\ raised = "FileNotFoundError"
    /\ pre.worktree[file_relpaths[1]] = "KSK"
    /\ repo.worktree[file_relpaths[1]] = "KK"
    /\ file_relpaths[3] \in FileNames
    /\ file_relpaths[3] # file_relpaths[1]
    /\ pre.worktree[file_relpaths[3]] = "KSK"
    /\ repo.worktree[file_relpaths[3]] = "KSK"

\* a dry-run command with the file list of the dry run that completed just
\* before it has ended (a refused one never reads its list)
DryRunAgain ==
    /\ pc = "done"
    /\ args.file_list_exists /\ args.no_commit
    /\ prev_dry_run.ran
    /\ Dispatched => file_relpaths = prev_dry_run.file_relpaths

\* C15: with an idempotent sanitizer, a dry run that follows a completed dry
\* run with the same file list, forced or refused, leaves every file of the
\* working tree with the content the first run gave it; and a commit-mode
\* command applies the sanitizer to the files of the copy only, once for each
\* entry of the file list.
C15_Idempotence ==
    /\ DryRunAgain =>
           /\ repo.worktree = pre.worktree
           /\ Dispatched => calls <= Len(file_relpaths)
    /\ CommitMode =>
           /\ repo.worktree = pre.worktree
           /\ pc \in {"copytree", "clean", "sanitize"} => calls = 0
           /\ calls <= Len(file_relpaths)
           /\ (pc \in {"commit", "fetch"} \/ Succeeded) =>
                  calls = Len(file_relpaths)
           /\ pc \in {"commit", "fetch"} =>
                  copy.worktree = WithListedSanitized(HeadTreeBefore)

\* a forced dry run has sanitized again a file the dry run before it had
\* sanitized (the index still holds the marked block)
C15_Witness ==
    /\ DryRunAgain /\ Dispatched /\ Succeeded
    /\ args.force
    /\ Listed(PathA)
    /\ repo.index[PathA] = "KSK"
    /\ pre.worktree[PathA] = "KK"
    /\ repo.worktree[PathA] = "KK"
    /\ calls = Len(file_relpaths)

\* the commits reachable from commit c
Reachable(r, c) == {a \in 1..Len(r.objects) : IsAncestor(r, a, c)}

\* C16: every update of the target branch in the original repository is a
\* creation or a fast-forward: when the branch existed, its previous tip is
\* the parent of the new tip and every commit that was reachable from the
\* branch still is; the fetch is never asked for an update that is not a
\* fast-forward.
C16_FastForwardOnly ==
    /\ pc = "fetch" =>
           \/ repo.refs[args.target_branch] = 0
           \/ IsAncestor(copy, repo.refs[args.target_branch],
                         copy.refs[args.target_branch])
    /\ (CommitMode /\ TipNow # TipBefore) =>
           /\ TipNow > Len(pre.objects)
           /\ TipBefore # 0 =>
                  /\ ParentOf(repo, TipNow) = TipBefore
                  /\ Reachable(pre, TipBefore) \subseteq Reachable(repo, TipNow)

\* a target branch that had fallen behind HEAD was moved forward: its old
\* tip, which is not HEAD's commit, is the parent of the new tip
C16_Witness ==
    /\ CommitModeDone /\ Succeeded
    /\ TipBefore # 0
    /\ TipBefore # head_commit(pre)
    /\ TipNow # TipBefore
    /\ ParentOf(repo, TipNow) = TipBefore

\* the target branch is the branch checked out in the original repository
TargetIsCheckedOut == args.target_branch = pre.HEAD

\* _git_commit_on_branch has made its commit in the copy
CommitMadeInCopy ==
    /\ copy.refs[args.target_branch] = Len(pre.objects) + 1
    /\ Len(copy.objects) = Len(pre.objects) + 1

\* C17: commit mode never moves the tip of the branch that is checked out in
\* the original repository. When the target branch is that branch, the fetch,
\* once the commit is made in the copy, is refused; the command ends with an
\* exception, the copy is discarded, and HEAD, every ref, the index and the
\* working tree of the original repository are exactly as before.
C17_CheckedOutBranchNotMoved ==
    /\ CommitMode =>
           /\ repo.HEAD = pre.HEAD
           /\ repo.refs[repo.HEAD] = pre.refs[pre.HEAD]
    /\ (pc = "exit" /\ TargetIsCheckedOut /\ CommitMadeInCopy) =>
           /\ raised = "GitCommandError"
           /\ RefsUntouched
    /\ (CommitModeDone /\ TargetIsCheckedOut) =>
           /\ raised # ""
           /\ result = NoResult
           /\ tmpdir = "none" /\ copy = EmptyRepo
           /\ repo.HEAD = pre.HEAD
           /\ RefsUntouched
           /\ repo.index = pre.index
           /\ repo.worktree = pre.worktree
           /\ diff_head_index(repo) = diff_head_index(pre)
           /\ diff_index_worktree(repo) = diff_index_worktree(pre)

\* the commit with a sanitized file was made on the checked-out branch's
\* name in the copy, and git refused to fetch it
C17_Witness ==
    /\ pc = "exit"
    /\ TargetIsCheckedOut
    /\ CommitMadeInCopy
    /\ TreeOf(copy, copy.refs[args.target_branch])[PathA] = "KK"
    /\ raised = "GitCommandError" /\ ~fault
    /\ RefsUntouched

=============================================================================
